---- MODULE Spec2Model ----
(***************************************************************************)
(* The InputSource implementation of TransactionRecordsById                *)
(* (zingolib/src/wallet/transaction_records_by_id/input_source.rs):        *)
(* single-note lookup, greedy selection of shielded notes for a target     *)
(* value, and the two transparent-output lookups, over a store of          *)
(* transaction records that the adapter only reads.                        *)
(*                                                                         *)
(* A behaviour is one call on one store: the initial state draws the       *)
(* store, an action draws the call's arguments and records its result.     *)
(* The adapter keeps no state between calls, so a second call on the same  *)
(* store would only repeat a first call of another behaviour.              *)
(***************************************************************************)
EXTENDS Integers, Sequences, FiniteSets, TLC

\* ------------------------------------------------------------------ bounds

\* At most this many notes (or transparent outputs) in the whole store.
MaxItems == 2
\* The largest representable amount (MAX_MONEY of NonNegativeAmount), scaled.
MAX_MONEY == 3

\* The store holds up to this set of records, iterated by values() as 1, 2.
\* Operations compare transaction ids for equality only, so which id comes
\* first is immaterial; the contents of the records are drawn in every order.
TxIds == {1, 2}
\* Confirmation heights of records, and the heights a caller passes.
Heights == {1, 2}
\* Values of shielded notes (a valid note is worth at most MAX_MONEY).
Values == {1, 2}
\* Raw u64 values of transparent outputs: one in range, one past MAX_MONEY.
OutputValues == {1, MAX_MONEY + 1}
\* Locking scripts of the outputs the wallet records: each pays to an address.
Scripts == {"p2pkh", "p2sh"}
\* Account identities: AccountId::ZERO and another one.
ACCOUNT_ZERO == 0
Accounts == {ACCOUNT_ZERO, 1}
\* ShieldedProtocol
Pools == {"Sapling", "Orchard"}

\* ------------------------------------------------------------ Option, Result

None == [some |-> FALSE, val |-> 0]
Some(v) == [some |-> TRUE, val |-> v]

\* ------------------------------------------------------------------ state

VARIABLES
    store,   \* the TransactionRecordsById: its records in values() order
    call,    \* the operation called and its arguments
    result   \* what the call returned

vars == <<store, call, result>>

\* ------------------------------------------------------------ store contents

\* ConfirmationStatus: unconfirmed, or confirmed at a height.
Statuses ==
    {[confirmed |-> FALSE, height |-> 0]}
        \cup {[confirmed |-> TRUE, height |-> h] : h \in Heights}

\* The statuses of the records a selection can collect from at some anchor.
ConfirmedStatuses == {status \in Statuses : status.confirmed}

\* A shielded note of a record: its value, whether it is spent, and whether
\* the store can hand it out again when asked for it by index. The selection
\* drops a spent note before it reads its value, so one value stands for all.
ConsistentNotes ==
    [value : Values, spent : {FALSE}, resolves : {TRUE}]
        \cup [value : {1}, spent : {TRUE}, resolves : {TRUE}]
\* Unspent notes of a store whose second lookup may fail. The fold fails on
\* such a note before it reads its value, so one value stands for all.
UnspentNotes ==
    [value : Values, spent : {FALSE}, resolves : {TRUE}]
        \cup [value : {1}, spent : {FALSE}, resolves : {FALSE}]

\* A transparent output of a record.
Outputs == [value : OutputValues, script : Scripts, spent : BOOLEAN]

SeqsOfLen(S, k) == [1..k -> S]

\* The records with this txid and a status of S, holding at most n notes drawn
\* from N and at most n outputs drawn from O.
TransactionRecords(txid, n, S, N, O) ==
    UNION {UNION {UNION {
        [txid : {txid}, status : S,
         sapling_notes : SeqsOfLen(N, a),
         orchard_notes : SeqsOfLen(N, b),
         transparent_outputs : SeqsOfLen(O, c)]
        : c \in 0..(n - a - b)} : b \in 0..(n - a)} : a \in 0..n}

ItemCount(tr) ==
    Len(tr.sapling_notes) + Len(tr.orchard_notes) + Len(tr.transparent_outputs)

RECURSIVE Items(_)
Items(s) ==
    IF s = << >> THEN 0 ELSE ItemCount(Head(s)) + Items(Tail(s))

\* Stores of k records (txids 1..k in iteration order), n items in all.
RECURSIVE StoresOf(_, _, _, _, _)
StoresOf(k, n, S, N, O) ==
    IF k = 0 THEN {<< >>}
    ELSE UNION {{Append(s, tr)
                    : tr \in TransactionRecords(k, n - Items(s), S, N, O)}
                : s \in StoresOf(k - 1, n, S, N, O)}

Stores(S, N, O) ==
    UNION {StoresOf(k, MaxItems, S, N, O) : k \in 0..Cardinality(TxIds)}

\* ------------------------------------------------- the store's own queries

\* ConfirmationStatus::is_confirmed_before_or_at
is_confirmed_before_or_at(status, height) ==
    status.confirmed /\ status.height <= height

\* ConfirmationStatus::get_confirmed_height
get_confirmed_height(status) ==
    IF status.confirmed THEN Some(status.height) ELSE None

\* The notes of a record in the pool of domain D.
shnotes(tr, D) ==
    IF D = "Sapling" THEN tr.sapling_notes ELSE tr.orchard_notes

ShNoteId(txid, shpool, index) ==
    [txid |-> txid, shpool |-> shpool, index |-> index]

\* TransactionRecord::select_unspent_shnotes_and_ids::<D>: the unspent notes
\* of the record, in their order, each with the reference to look it up by.
RECURSIVE unspent_from(_, _, _)
unspent_from(tr, D, i) ==
    IF i > Len(shnotes(tr, D)) THEN << >>
    ELSE (IF shnotes(tr, D)[i].spent THEN << >>
          ELSE << [note |-> shnotes(tr, D)[i].value,
                   noteref |-> ShNoteId(tr.txid, D, i - 1)] >>)
         \o unspent_from(tr, D, i + 1)

select_unspent_shnotes_and_ids(tr, D) == unspent_from(tr, D, 1)

\* TransactionRecord::get_received_note::<D>(index)
get_received_note(tr, D, index) ==
    IF index + 1 <= Len(shnotes(tr, D)) /\ shnotes(tr, D)[index + 1].resolves
    THEN Some([note_id |-> ShNoteId(tr.txid, D, index),
               note |-> shnotes(tr, D)[index + 1].value])
    ELSE None

\* TransactionRecordsById::get(txid)
get(s, txid) ==
    IF \E i \in 1..Len(s) : s[i].txid = txid
    THEN Some(s[CHOOSE i \in 1..Len(s) : s[i].txid = txid])
    ELSE None

\* TransactionRecordsById::get_received_note_from_identifier::<D>
get_received_note_from_identifier(s, D, note_record_reference) ==
    LET tr == get(s, note_record_reference.txid)
    IN  IF tr.some
        THEN get_received_note(tr.val, D, note_record_reference.index)
        ELSE None

\* NonNegativeAmount::from_u64: fails past MAX_MONEY.
from_u64(v) == IF v <= MAX_MONEY THEN Some(v) ELSE None

\* NonNegativeAmount - NonNegativeAmount: nothing when it would go below zero.
Sub(a, b) == IF a >= b THEN Some(a - b) ELSE None

\* ------------------------------------------------------------ results

Ok(v) == [tag |-> "Ok", val |-> v, err |-> "", short |-> 0]
Err(msg) == [tag |-> "Err", val |-> 0, err |-> msg, short |-> 0]
ErrShort(n) == [tag |-> "Err", val |-> 0, err |-> "insufficient funds", short |-> n]

\* ------------------------------------------------------ get_spendable_note

\* The mutant wraps the note in the other pool's variant.
get_spendable_note_wrong_variant(s, txid, protocol, index) ==
    LET r == get_received_note_from_identifier(
                 s, protocol, ShNoteId(txid, protocol, index))
        other == IF protocol = "Sapling" THEN "Orchard" ELSE "Sapling"
    IN  Ok(IF r.some
           THEN Some([note_id |-> r.val.note_id,
                      note |-> [variant |-> other, value |-> r.val.note]])
           ELSE None)

get_spendable_note(s, txid, protocol, index) ==
    LET note_record_reference == ShNoteId(txid, protocol, index)
    IN  IF protocol = "Sapling"
        THEN LET r == get_received_note_from_identifier(
                          s, "Sapling", note_record_reference)
             IN  Ok(IF r.some
                    THEN Some([note_id |-> r.val.note_id,
                               note |-> [variant |-> "Sapling",
                                         value |-> r.val.note]])
                    ELSE None)
        ELSE LET r == get_received_note_from_identifier(
                          s, "Orchard", note_record_reference)
             IN  Ok(IF r.some
                    THEN Some([note_id |-> r.val.note_id,
                               note |-> [variant |-> "Orchard",
                                         value |-> r.val.note]])
                    ELSE None)

\* --------------------------------------------------- select_spendable_notes

Contains(seq, x) == \E i \in 1..Len(seq) : seq[i] = x

\* The mutant forgets the exclusion list.
RECURSIVE note_noteref_pairs_no_exclude(_, _, _, _, _)
note_noteref_pairs_no_exclude(s, D, sources, anchor_height, exclude) ==
    IF s = << >> THEN << >>
    ELSE (IF is_confirmed_before_or_at(Head(s).status, anchor_height)
             /\ D \in sources
          THEN select_unspent_shnotes_and_ids(Head(s), D)
          ELSE << >>)
         \o note_noteref_pairs_no_exclude(Tail(s), D, sources, anchor_height,
                                          exclude)

\* The scan: for each record confirmed at or before the anchor, in values()
\* order, the record's unspent notes of pool D that exclude does not hold,
\* when sources holds D.
RECURSIVE note_noteref_pairs(_, _, _, _, _)
note_noteref_pairs(s, D, sources, anchor_height, exclude) ==
    IF s = << >> THEN << >>
    ELSE (IF is_confirmed_before_or_at(Head(s).status, anchor_height)
             /\ D \in sources
          THEN SelectSeq(select_unspent_shnotes_and_ids(Head(s), D),
                         LAMBDA note_ref_pair :
                             ~Contains(exclude, note_ref_pair.noteref))
          ELSE << >>)
         \o note_noteref_pairs(Tail(s), D, sources, anchor_height, exclude)

\* The mutant passes over a note that the second lookup cannot resolve.
fold_step_skip_missing(s, D, pair, acc) ==
    IF ~acc.rolling.some THEN acc
    ELSE LET tr == get(s, pair.noteref.txid)
             received == IF tr.some
                         THEN get_received_note(tr.val, D, pair.noteref.index)
                         ELSE None
         IN  IF ~received.some THEN acc
             ELSE [err |-> "",
                   rolling |-> Sub(acc.rolling.val, pair.note),
                   notes |-> Append(acc.notes, received.val)]

\* One step of the fold's closure on the pair (note, noteref), acc being the
\* rolling target and the notes pushed so far.
fold_step(s, D, pair, acc) ==
    IF ~acc.rolling.some THEN acc
    ELSE LET tr == get(s, pair.noteref.txid)
             received == IF tr.some
                         THEN get_received_note(tr.val, D, pair.noteref.index)
                         ELSE None
         IN  IF ~received.some
             THEN [acc EXCEPT !.err = "missing note"]
             ELSE IF ~from_u64(pair.note).some
             THEN [acc EXCEPT !.err = "amount out of range",
                              !.notes = Append(@, received.val)]
             ELSE [err |-> "",
                   rolling |-> Sub(acc.rolling.val, from_u64(pair.note).val),
                   notes |-> Append(acc.notes, received.val)]

\* pairs.into_iter().rev().try_fold(Some(target), closure): from the last
\* pair to the first, stopping at the first error.
RECURSIVE try_fold_from(_, _, _, _, _)
try_fold_from(s, D, pairs, i, acc) ==
    IF i = 0 \/ acc.err # "" THEN acc
    ELSE try_fold_from(s, D, pairs, i - 1, fold_step(s, D, pairs[i], acc))

try_fold_rev(s, D, pairs, rolling_target) ==
    try_fold_from(s, D, pairs, Len(pairs),
                  [err |-> "", rolling |-> rolling_target, notes |-> << >>])

SpendableNotes(sapling_notes, orchard_notes) ==
    [sapling |-> sapling_notes, orchard |-> orchard_notes]

\* The mutant starts the Orchard fold from the full target again.
select_from_pools_restart_target(s, target_value, sources, anchor_height, exclude) ==
    LET after_sapling ==
            try_fold_rev(s, "Sapling",
                note_noteref_pairs(s, "Sapling", sources, anchor_height, exclude),
                Some(target_value))
        after_orchard ==
            try_fold_rev(s, "Orchard",
                note_noteref_pairs(s, "Orchard", sources, anchor_height, exclude),
                Some(target_value))
    IN  IF after_sapling.err # "" THEN Err(after_sapling.err)
        ELSE IF ~after_sapling.rolling.some
        THEN Ok(SpendableNotes(after_sapling.notes, << >>))
        ELSE IF after_orchard.err # "" THEN Err(after_orchard.err)
        ELSE IF after_orchard.rolling.some
        THEN ErrShort(after_orchard.rolling.val)
        ELSE Ok(SpendableNotes(after_sapling.notes, after_orchard.notes))

\* The body of select_spendable_notes after the account check.
select_from_pools(s, target_value, sources, anchor_height, exclude) ==
    LET sapling_note_noteref_pairs ==
            note_noteref_pairs(s, "Sapling", sources, anchor_height, exclude)
        orchard_note_noteref_pairs ==
            note_noteref_pairs(s, "Orchard", sources, anchor_height, exclude)
        after_sapling ==
            try_fold_rev(s, "Sapling", sapling_note_noteref_pairs,
                         Some(target_value))
        after_orchard ==
            try_fold_rev(s, "Orchard", orchard_note_noteref_pairs,
                         after_sapling.rolling)
    IN  IF after_sapling.err # "" THEN Err(after_sapling.err)
        ELSE IF ~after_sapling.rolling.some
        THEN Ok(SpendableNotes(after_sapling.notes, << >>))
        ELSE IF after_orchard.err # "" THEN Err(after_orchard.err)
        ELSE IF after_orchard.rolling.some
        THEN ErrShort(after_orchard.rolling.val)
        ELSE Ok(SpendableNotes(after_sapling.notes, after_orchard.notes))

\* The mutant serves every account.
select_spendable_notes_any_account(s, account, target_value, sources, anchor_height, exclude) ==
    select_from_pools(s, target_value, sources, anchor_height, exclude)

select_spendable_notes(s, account, target_value, sources, anchor_height, exclude) ==
    IF account # ACCOUNT_ZERO
    THEN Err("we don't use non-zero accounts (yet?)")
    ELSE select_from_pools(s, target_value, sources, anchor_height, exclude)

\* ------------------------------------------------ the transparent lookups

\* TransparentOutput::to_outpoint of the i-th output of a record.
to_outpoint(tr, i) == [txid |-> tr.txid, n |-> i - 1]

\* WalletTransparentOutput::from_parts: the output, for a script that pays to
\* an address.
from_parts(outpoint, value, script_pubkey, height) ==
    IF script_pubkey \in Scripts
    THEN Some([outpoint |-> outpoint, value |-> value,
               script_pubkey |-> script_pubkey, height |-> height])
    ELSE None

\* The (record, output) positions find_map looks at, in iteration order.
RECURSIVE output_positions(_, _)
output_positions(s, k) ==
    IF k > Len(s) THEN << >>
    ELSE [i \in 1..Len(s[k].transparent_outputs) |-> <<k, i>>]
         \o output_positions(s, k + 1)

\* The mutant matches an output on its index alone, whatever its record.
get_unspent_transparent_output_any_txid(s, outpoint) ==
    LET found == SelectSeq(output_positions(s, 1),
                     LAMBDA p : /\ to_outpoint(s[p[1]], p[2]).n = outpoint.n
                                /\ get_confirmed_height(s[p[1]].status).some)
    IN  IF found = << >> THEN Ok(None)
        ELSE LET tr == s[found[1][1]]
                 output == tr.transparent_outputs[found[1][2]]
                 height == get_confirmed_height(tr.status).val
                 value == from_u64(output.value)
             IN  IF ~value.some THEN Err("amount out of range")
                 ELSE Ok(from_parts(outpoint, value.val, output.script, height))

get_unspent_transparent_output(s, outpoint) ==
    LET found == SelectSeq(output_positions(s, 1),
                     LAMBDA p : /\ to_outpoint(s[p[1]], p[2]) = outpoint
                                /\ get_confirmed_height(s[p[1]].status).some)
    IN  IF found = << >> THEN Ok(None)
        ELSE LET tr == s[found[1][1]]
                 output == tr.transparent_outputs[found[1][2]]
                 height == get_confirmed_height(tr.status).val
                 value == from_u64(output.value)
             IN  IF ~value.some THEN Err("amount out of range")
                 ELSE Ok(from_parts(outpoint, value.val, output.script, height))

\* What filter_map yields for one output of a record confirmed in range:
\* an error, an output, or nothing.
wallet_output(tr, i, confirmed_height) ==
    LET output == tr.transparent_outputs[i]
        value == from_u64(output.value)
    IN  IF ~value.some THEN << Err("amount out of range") >>
        ELSE LET wto == from_parts(to_outpoint(tr, i), value.val,
                                   output.script, confirmed_height)
             IN  IF wto.some THEN << Ok(wto.val) >> ELSE << >>

RECURSIVE record_outputs(_, _, _, _)
record_outputs(tr, i, confirmed_height, exclude) ==
    IF i > Len(tr.transparent_outputs) THEN << >>
    ELSE (IF \A k \in 1..Len(exclude) : exclude[k] # to_outpoint(tr, i)
          THEN wallet_output(tr, i, confirmed_height)
          ELSE << >>)
         \o record_outputs(tr, i + 1, confirmed_height, exclude)

RECURSIVE all_outputs(_, _, _)
all_outputs(s, max_height, exclude) ==
    IF s = << >> THEN << >>
    ELSE (IF get_confirmed_height(Head(s).status).some
             /\ get_confirmed_height(Head(s).status).val <= max_height
          THEN record_outputs(Head(s), 1,
                              get_confirmed_height(Head(s).status).val, exclude)
          ELSE << >>)
         \o all_outputs(Tail(s), max_height, exclude)

\* collect() into a Result: the first error, or every output.
get_unspent_transparent_outputs(s, max_height, exclude) ==
    LET items == all_outputs(s, max_height, exclude)
    IN  IF \E i \in 1..Len(items) : items[i].tag = "Err"
        THEN items[CHOOSE i \in 1..Len(items) :
                       /\ items[i].tag = "Err"
                       /\ \A j \in 1..(i - 1) : items[j].tag = "Ok"]
        ELSE Ok([i \in 1..Len(items) |-> items[i].val])

\* ------------------------------------------------------------ the calls

NoCall == [op |-> "none"]
NoResult == [tag |-> "none"]

\* The references of the notes the store holds.
RECURSIVE NoteIds(_)
NoteIds(s) ==
    IF s = << >> THEN {}
    ELSE {ShNoteId(Head(s).txid, "Sapling", i - 1)
              : i \in 1..Len(Head(s).sapling_notes)}
         \cup {ShNoteId(Head(s).txid, "Orchard", i - 1)
                   : i \in 1..Len(Head(s).orchard_notes)}
         \cup NoteIds(Tail(s))

\* The outpoints of the outputs the store holds.
RECURSIVE OutPoints(_)
OutPoints(s) ==
    IF s = << >> THEN {}
    ELSE {to_outpoint(Head(s), i) : i \in 1..Len(Head(s).transparent_outputs)}
         \cup OutPoints(Tail(s))

\* The exclusion lists a caller passes: none, one entry, one entry twice.
ExcludeLists(S) == {<< >>} \cup {<<x>> : x \in S} \cup {<<x, x>> : x \in S}

Init ==
    /\ store \in Stores(Statuses, ConsistentNotes, {})
    /\ call = NoCall
    /\ result = NoResult

InitInconsistent ==
    /\ store \in Stores(ConfirmedStatuses, UnspentNotes, {})
    /\ call = NoCall
    /\ result = NoResult

InitTransparent ==
    /\ store \in Stores(Statuses, {}, Outputs)
    /\ call = NoCall
    /\ result = NoResult

GetSpendableNote ==
    /\ call = NoCall
    /\ \E txid \in TxIds, protocol \in Pools, index \in 0..MaxItems :
          /\ call' = [op |-> "get_spendable_note", txid |-> txid,
                      protocol |-> protocol, index |-> index]
          /\ result' = get_spendable_note(store, txid, protocol, index)
    /\ UNCHANGED store

SelectSpendableNotes ==
    /\ call = NoCall
    /\ \E account \in Accounts, target_value \in 0..MAX_MONEY,
          sources \in SUBSET Pools, anchor_height \in Heights,
          exclude \in ExcludeLists(NoteIds(store)) :
          /\ call' = [op |-> "select_spendable_notes", account |-> account,
                      target_value |-> target_value, sources |-> sources,
                      anchor_height |-> anchor_height, exclude |-> exclude]
          /\ result' = select_spendable_notes(store, account, target_value,
                           sources, anchor_height, exclude)
    /\ UNCHANGED store

GetUnspentTransparentOutput ==
    /\ call = NoCall
    /\ \E txid \in TxIds, n \in 0..MaxItems :
          /\ call' = [op |-> "get_unspent_transparent_output",
                      outpoint |-> [txid |-> txid, n |-> n]]
          /\ result' = get_unspent_transparent_output(
                           store, [txid |-> txid, n |-> n])
    /\ UNCHANGED store

GetUnspentTransparentOutputs ==
    /\ call = NoCall
    /\ \E max_height \in Heights, exclude \in ExcludeLists(OutPoints(store)) :
          /\ call' = [op |-> "get_unspent_transparent_outputs",
                      max_height |-> max_height, exclude |-> exclude]
          /\ result' = get_unspent_transparent_outputs(
                           store, max_height, exclude)
    /\ UNCHANGED store

Next == GetSpendableNote \/ SelectSpendableNotes

NextTransparent == GetUnspentTransparentOutput \/ GetUnspentTransparentOutputs

\* Calls on a store of notes that all resolve.
Spec == Init /\ [][Next]_vars

\* Calls on a store some of whose notes the second lookup cannot resolve.
SpecInconsistent == InitInconsistent /\ [][Next]_vars

\* The transparent lookups on a store of transparent outputs.
SpecTransparent == InitTransparent /\ [][NextTransparent]_vars

\* ------------------------------------------------ vocabulary of the claims

IsSelect == call.op = "select_spendable_notes"
\* The call failed with this message.
Failed(msg) == result.tag = "Err" /\ result.err = msg
\* A selection asked of the supported account.
Supported == IsSelect /\ call.account = ACCOUNT_ZERO
IsGetNote == call.op = "get_spendable_note"
IsBulk == call.op = "get_unspent_transparent_outputs"

RecordOf(txid) == store[CHOOSE k \in 1..Len(store) : store[k].txid = txid]
NoteAt(id) == shnotes(RecordOf(id.txid), id.shpool)[id.index + 1]

\* A note the call may spend: unspent, of a permitted pool, not excluded, its
\* record confirmed at or before the anchor.
MaySpend(id) ==
    /\ ~NoteAt(id).spent
    /\ id.shpool \in call.sources
    /\ \A k \in 1..Len(call.exclude) : call.exclude[k] # id
    /\ RecordOf(id.txid).status.confirmed
    /\ RecordOf(id.txid).status.height <= call.anchor_height

Eligible(id) == id \in NoteIds(store) /\ MaySpend(id)

EligibleIds == {id \in NoteIds(store) : MaySpend(id)}

RECURSIVE ValueOfIds(_)
ValueOfIds(S) ==
    IF S = {} THEN 0
    ELSE LET id == CHOOSE x \in S : TRUE
         IN  NoteAt(id).value + ValueOfIds(S \ {id})

EligibleValue == ValueOfIds(EligibleIds)

\* The notes of a successful selection, Sapling group first.
SelectedNotes == result.val.sapling \o result.val.orchard

RECURSIVE ValueOfNotes(_)
ValueOfNotes(notes) ==
    IF notes = << >> THEN 0 ELSE Head(notes).note + ValueOfNotes(Tail(notes))

PositionIn(notes, id) == CHOOSE k \in 1..Len(notes) : notes[k].note_id = id
IsIn(notes, id) == \E k \in 1..Len(notes) : notes[k].note_id = id
Group(pool) == IF pool = "Sapling" THEN result.val.sapling ELSE result.val.orchard

\* --------------------------------------------------------------- the claims

\* C1: asked of the supported account for a target that the eligible notes
\* cover (their values sum to at least the target, zero and the exact sum
\* included), the selection succeeds and the returned notes are worth at
\* least the target.
C1_CoveredTargetSucceeds ==
    (Supported /\ call.target_value <= EligibleValue)
        => /\ result.tag = "Ok"
           /\ ValueOfNotes(SelectedNotes) >= call.target_value

\* C2: asked for a target strictly above the value of the eligible notes, the
\* selection fails with insufficient funds and reports as shortfall the target
\* minus that value.
C2_ShortfallIsExact ==
    Supported
        => LET value == EligibleValue
           IN  call.target_value > value
                   => /\ Failed("insufficient funds")
                      /\ result.short = call.target_value - value

\* C2's case: eligible notes in both pools, and still not enough.
C2_Witness ==
    /\ Supported
    /\ call.target_value > EligibleValue
    /\ \E a, b \in EligibleIds : a.shpool = "Sapling" /\ b.shpool = "Orchard"
    /\ Failed("insufficient funds")

\* C3: within a pool the selection takes the eligible notes in descending
\* order of value: a note is selected only if every eligible note of the pool
\* worth more is selected too and stands before it in the group.
C3_DescendingWithinPool ==
    (Supported /\ result.tag = "Ok")
        => \A a, b \in EligibleIds :
              (/\ a.shpool = b.shpool
               /\ NoteAt(a).value > NoteAt(b).value
               /\ IsIn(Group(b.shpool), b))
                  => /\ IsIn(Group(a.shpool), a)
                     /\ PositionIn(Group(a.shpool), a)
                            < PositionIn(Group(b.shpool), b)

\* C4: every note of a successful selection is eligible (not excluded, not
\* spent, of a permitted pool, its record confirmed at or before the anchor)
\* and sits in the group of its own pool.
C4_SelectedAreEligible ==
    (IsSelect /\ result.tag = "Ok")
        => /\ \A k \in 1..Len(SelectedNotes) : Eligible(SelectedNotes[k].note_id)
           /\ \A k \in 1..Len(result.val.sapling) :
                  result.val.sapling[k].note_id.shpool = "Sapling"
           /\ \A k \in 1..Len(result.val.orchard) :
                  result.val.orchard[k].note_id.shpool = "Orchard"

\* C4's case: a selection that returns a note while the store holds an
\* unspent note it must leave out.
C4_Witness ==
    /\ IsSelect
    /\ result.tag = "Ok"
    /\ SelectedNotes # << >>
    /\ \E id \in NoteIds(store) :
          /\ ~NoteAt(id).spent
          /\ ~Eligible(id)
          /\ \E k \in 1..Len(call.exclude) : call.exclude[k] = id

\* C7: a selection asked of any account but the supported one fails with the
\* unsupported-account error, whatever the store and the other arguments.
C7_OtherAccountsRejected ==
    (IsSelect /\ call.account # ACCOUNT_ZERO)
        => Failed("we don't use non-zero accounts (yet?)")

\* C7's case: the other account asks for what the supported one would get.
C7_Witness ==
    /\ IsSelect
    /\ call.account # ACCOUNT_ZERO
    /\ Failed("we don't use non-zero accounts (yet?)")
    /\ select_from_pools(store, call.target_value, call.sources,
                         call.anchor_height, call.exclude).tag = "Ok"
    /\ EligibleIds # {}

\* The note get_spendable_note is asked for is in the store.
NoteExists ==
    /\ \E k \in 1..Len(store) : store[k].txid = call.txid
    /\ call.index + 1 <= Len(shnotes(RecordOf(call.txid), call.protocol))

\* C8: get_spendable_note never fails: it returns nothing when the store has
\* no record for the txid or the record no note of the pool at the index, and
\* otherwise that note, tagged with the pool and carrying the identifier
\* {txid, pool, index}.
C8_AbsentNoteIsNoError ==
    IsGetNote
        => /\ result.tag = "Ok"
           /\ ~NoteExists => result.val = None
           /\ NoteExists =>
                 result.val =
                     Some([note_id |-> ShNoteId(call.txid, call.protocol, call.index),
                           note |-> [variant |-> call.protocol,
                                     value |-> NoteAt(ShNoteId(call.txid,
                                                   call.protocol, call.index)).value]])

\* C8's case: the record is there and holds notes of the pool, but none at
\* the index.
C8_Witness ==
    /\ IsGetNote
    /\ \E k \in 1..Len(store) : store[k].txid = call.txid
    /\ shnotes(RecordOf(call.txid), call.protocol) # << >>
    /\ ~NoteExists
    /\ result.tag = "Ok"
    /\ result.val = None

\* C9: a note is added only while the amount still to cover, just before it,
\* is strictly positive, the amount carrying over from the Sapling group to
\* the Orchard group; so a target of zero selects nothing.
C9_AddsOnlyWhileShort ==
    (Supported /\ result.tag = "Ok")
        => /\ \A k \in 1..Len(SelectedNotes) :
                  call.target_value
                      - ValueOfNotes(SubSeq(SelectedNotes, 1, k - 1)) > 0
           /\ call.target_value = 0 => SelectedNotes = << >>

\* The eligible notes in the order the selection considers them: the Sapling
\* ones before the Orchard ones, each pool from the last collected to the
\* first.
Reverse(seq) == [k \in 1..Len(seq) |-> seq[Len(seq) + 1 - k]]

Considered ==
    Reverse(note_noteref_pairs(store, "Sapling", call.sources,
                               call.anchor_height, call.exclude))
    \o Reverse(note_noteref_pairs(store, "Orchard", call.sources,
                                  call.anchor_height, call.exclude))

RECURSIVE ValueOfPairs(_)
ValueOfPairs(pairs) ==
    IF pairs = << >> THEN 0 ELSE Head(pairs).note + ValueOfPairs(Tail(pairs))

\* The scan collects a note that the second lookup cannot resolve.
CollectsUnresolved == \E id \in EligibleIds : ~NoteAt(id).resolves

\* What the candidates considered before the first unresolvable one are worth.
ValueBeforeFirstUnresolved ==
    LET considered == Considered
        first == CHOOSE k \in 1..Len(considered) :
                     /\ ~NoteAt(considered[k].noteref).resolves
                     /\ \A j \in 1..(k - 1) :
                            NoteAt(considered[j].noteref).resolves
    IN  ValueOfPairs(SubSeq(considered, 1, first - 1))

\* C10 as stated: whenever the scan collects an identifier that the second
\* lookup cannot resolve, the selection fails with the missing-note error,
\* wherever the identifier falls among the candidates.
C10_UnresolvedAlwaysFails ==
    (Supported /\ CollectsUnresolved) => Failed("missing note")

\* C10 amended: when the scan collects identifiers that the second lookup
\* cannot resolve, the selection never reports insufficient funds and never
\* returns such a note. It fails with the missing-note error when the
\* candidates considered before the first of them (Sapling before Orchard,
\* each pool from the last collected to the first) are worth less than the
\* target; when they are worth more, the identifier is never looked up and
\* the selection succeeds.
C10_UnresolvedFailsWhenReached ==
    (Supported /\ CollectsUnresolved)
        => LET before == ValueBeforeFirstUnresolved
           IN  /\ ~Failed("insufficient funds")
               /\ result.tag = "Ok"
                      => \A k \in 1..Len(SelectedNotes) :
                             NoteAt(SelectedNotes[k].note_id).resolves
               /\ before < call.target_value => Failed("missing note")
               /\ before > call.target_value => result.tag = "Ok"

\* C10's case: the lookup fails on a note after an earlier note was added.
C10_Witness ==
    /\ Supported
    /\ CollectsUnresolved
    /\ ValueBeforeFirstUnresolved > 0
    /\ ValueBeforeFirstUnresolved < call.target_value
    /\ Failed("missing note")

\* ----------------------------------------------- the transparent lookups

\* The outputs the bulk lookup is to return: unspent, not excluded, of a
\* record confirmed at or below max_height; each with its value, its script
\* and the record's height.
ExpectedOutputs ==
    {[outpoint |-> to_outpoint(store[k], i),
      value |-> store[k].transparent_outputs[i].value,
      script_pubkey |-> store[k].transparent_outputs[i].script,
      height |-> store[k].status.height]
        : <<k, i>> \in {p \in (1..Len(store)) \X (1..MaxItems) :
              /\ p[2] <= Len(store[p[1]].transparent_outputs)
              /\ store[p[1]].status.confirmed
              /\ store[p[1]].status.height <= call.max_height
              /\ ~store[p[1]].transparent_outputs[p[2]].spent
              /\ \A e \in 1..Len(call.exclude) :
                     call.exclude[e] # to_outpoint(store[p[1]], p[2])}}

\* C5: what the bulk lookup returns is exactly the unspent outputs, not
\* excluded, of the records confirmed at or below max_height, each once with
\* its value, its script and the record's height.
C5_BulkReturnsExactlyUnspent ==
    (IsBulk /\ result.tag = "Ok")
        => /\ {result.val[k] : k \in 1..Len(result.val)} = ExpectedOutputs
           /\ Len(result.val) = Cardinality(ExpectedOutputs)

\* C6: each output the bulk lookup returns is what the single lookup returns
\* for its outpoint on the same store: present, with the same outpoint,
\* value, script and height.
C6_BulkThenSingleRoundTrip ==
    (IsBulk /\ result.tag = "Ok")
        => \A k \in 1..Len(result.val) :
               LET single == get_unspent_transparent_output(
                                 store, result.val[k].outpoint)
               IN  /\ single.tag = "Ok"
                   /\ single.val = Some(result.val[k])

\* C6's case: the bulk lookup returns outputs of two records.
C6_Witness ==
    /\ IsBulk
    /\ result.tag = "Ok"
    /\ \E j, k \in 1..Len(result.val) :
           result.val[j].outpoint.txid # result.val[k].outpoint.txid

====
